---- MODULE Spec2Model ----
(***************************************************************************)
(* Model of the two Flask services of the repository:                      *)
(*   src/app.py     POST /sheet-update : fetch all rows of a sheet, build  *)
(*                  a WhatsApp payload per row and POST each one           *)
(*   src/app_01.py  POST /submit-data  : append the posted record to a     *)
(*                  sheet and answer with the payload built from it        *)
(* One behaviour is one request.  The environment (configuration values,  *)
(* which library call raises, what the sheet holds, what the client API    *)
(* answers) is chosen nondeterministically.                                *)
(***************************************************************************)
EXTENDS Integers, Sequences, FiniteSets, TLC

(* ---------------- bounds of the model ---------------- *)
MaxRecords == 2

(* ---------------- values ---------------- *)
\* A Python string is a sequence of one-character strings.
Chars == {" ", "9"}
SampleStrings == {<<>>, <<" ">>, <<"9">>, <<" ", "9">>}

\* Cell values of a record: a string, or None (JSON null).
StrCell(s) == [t |-> "str", s |-> s]
NoneCell == [t |-> "none", s |-> <<>>]
CellValues == {StrCell(s) : s \in SampleStrings} \cup {NoneCell}

Keys == {"Mobile No", "Application ID"}
\* A record is a dict: a function from the keys it holds to cell values.
Records == UNION {[D -> CellValues] : D \in SUBSET Keys}

RECURSIVE SeqsUpTo(_, _)
SeqsUpTo(S, n) ==
    IF n = 0 THEN {<<>>}
    ELSE LET shorter == SeqsUpTo(S, n - 1)
         IN  shorter \cup {Append(q, x) : q \in {r \in shorter : Len(r) = n - 1}, x \in S}

\* Environment variables: unset (os.getenv gives None), empty, or a value.
Unset == "<unset>"
EnvValues == {Unset, "", "value"}
\* Python truthiness of an os.getenv result.
Truthy(v) == v \notin {Unset, ""}

\* Status codes the client API may answer with.
StatusCodes == {200, 201, 202, 204, 500}

(* ---------------- state ---------------- *)
VARIABLES
    route,                \* "bulk" (app.py) or "submit" (app_01.py)
    CLIENT_API_ENDPOINT, CLIENT_API_KEY, GOOGLE_CREDENTIALS, SHEET_ID,
    pc,                   \* position in the handler
    tmp_file_name,        \* local of get_sheet_data / write_sheet_data
    tmpFiles,             \* credential files that exist on disk
    data_records,         \* [isNone, list]: result of get_sheet_data
    idx,                  \* position of the for loop in data_records.list
    success_count, error_count,
    incoming_data,        \* [t, rec]: request.get_json(silent=True)
    sheet_success,        \* result of write_sheet_data
    response,             \* what the handler returned
    posts,                \* history: indices of the records POSTed, in order
    outcomes,             \* history: what happened to each record, in order
    sheetIO,              \* history: number of remote spreadsheet calls
    appendCalls           \* history: number of append_row calls issued

vars == <<route, CLIENT_API_ENDPOINT, CLIENT_API_KEY, GOOGLE_CREDENTIALS, SHEET_ID,
          pc, tmp_file_name, tmpFiles, data_records, idx, success_count,
          error_count, incoming_data, sheet_success, response, posts, outcomes,
          sheetIO, appendCalls>>

env == <<route, CLIENT_API_ENDPOINT, CLIENT_API_KEY, GOOGLE_CREDENTIALS, SHEET_ID>>

NoName == "None"
TmpName == "/tmp/tmpcreds"

NoResponse == [kind |-> "none", code |-> 0, message |-> "",
               records_processed |-> 0, records_sent_successfully |-> 0,
               records_failed |-> 0, sheet_write_status |-> ""]
ErrorResponse(msg, code) == [NoResponse EXCEPT !.kind = "error", !.code = code, !.message = msg]
\* An exception left the handler: Flask, not the handler, answers.
Unhandled == [NoResponse EXCEPT !.kind = "unhandled"]

NoData == [isNone |-> TRUE, list |-> <<>>]
NoIncoming == [t |-> "none", rec |-> <<>>]

(* ---------------- pure functions ---------------- *)
\* str(x)
str(c) == IF c.t = "str" THEN c.s ELSE <<"N", "o", "n", "e">>

\* s.replace(' ', '')
RECURSIVE RemoveSpaces(_)
RemoveSpaces(s) ==
    IF s = <<>> THEN <<>>
    ELSE IF Head(s) = " " THEN RemoveSpaces(Tail(s))
         ELSE <<Head(s)>> \o RemoveSpaces(Tail(s))

\* record.get(key, '')
Get(record, key) == IF key \in DOMAIN record THEN record[key] ELSE StrCell(<<>>)

NoPayload == [isNone |-> TRUE, to |-> <<>>, filename |-> <<>>]

\* Mutant: the emptiness test is made on the phone number as received,
\* before the spaces are removed.
build_whatsapp_payload_NoStrip(record) ==
    LET mobile_no == str(Get(record, "Mobile No"))
        application_id == str(Get(record, "Application ID"))
    IN  IF mobile_no = <<>> \/ application_id = <<>>
        THEN NoPayload
        ELSE [isNone |-> FALSE, to |-> <<"9", "1">> \o RemoveSpaces(mobile_no),
              filename |-> application_id]


build_whatsapp_payload(record) ==
    LET mobile_no == RemoveSpaces(str(Get(record, "Mobile No")))
        application_id == str(Get(record, "Application ID"))
    IN  IF mobile_no = <<>> \/ application_id = <<>>
        THEN NoPayload
        ELSE [isNone |-> FALSE, to |-> <<"9", "1">> \o mobile_no, filename |-> application_id]

\* Mutant: every 2xx status counts as a success.
IsSuccessStatus_Any2xx(code) == code \in 200..299

\* response.status_code in [200, 201, 202]
IsSuccessStatus(code) == code \in {200, 201, 202}

Outcome(kind, status) == [kind |-> kind, status |-> status]

(* ---------------- initial state ---------------- *)
Init ==
    /\ route \in {"bulk", "submit"}
    /\ GOOGLE_CREDENTIALS \in EnvValues
    /\ CLIENT_API_ENDPOINT \in (IF route = "bulk" THEN EnvValues ELSE {Unset})
    /\ CLIENT_API_KEY \in (IF route = "bulk" THEN EnvValues ELSE {Unset})
    /\ SHEET_ID \in (IF route = "submit" THEN EnvValues ELSE {Unset})
    /\ pc = (IF route = "bulk" THEN "hw_config" ELSE "sd_json")
    /\ tmp_file_name = NoName
    /\ tmpFiles = {}
    /\ data_records = NoData
    /\ idx = 1
    /\ success_count = 0
    /\ error_count = 0
    /\ incoming_data = NoIncoming
    /\ sheet_success = FALSE
    /\ response = NoResponse
    /\ posts = <<>>
    /\ outcomes = <<>>
    /\ sheetIO = 0
    /\ appendCalls = 0

(* ---------------- app.py: get_sheet_data ---------------- *)
gs_locals == <<idx, success_count, error_count, incoming_data, sheet_success,
               response, posts, outcomes, appendCalls>>

\* lines 34-40
GetCreds ==
    /\ pc = "gs_creds"
    /\ IF ~Truthy(GOOGLE_CREDENTIALS)
       THEN pc' = "hw_check" /\ data_records' = NoData
       ELSE pc' = "gs_mktemp" /\ data_records' = NoData
    /\ tmp_file_name' = NoName
    /\ UNCHANGED <<env, tmpFiles, sheetIO, gs_locals>>

\* line 44: NamedTemporaryFile(delete=False) creates the file, or raises
MkTemp ==
    /\ pc = "gs_mktemp"
    /\ \/ pc' = "gs_write" /\ tmpFiles' = tmpFiles \cup {TmpName}
       \/ pc' = "gs_except" /\ UNCHANGED tmpFiles
    /\ UNCHANGED <<env, tmp_file_name, data_records, sheetIO, gs_locals>>

\* lines 45-46: write the credentials, then remember the file's name;
\* a write that raises leaves the with block before the name is assigned
WriteTemp ==
    /\ pc = "gs_write"
    /\ \/ pc' = "gs_auth" /\ tmp_file_name' = TmpName
       \/ pc' = "gs_except" /\ UNCHANGED tmp_file_name
    /\ UNCHANGED <<env, tmpFiles, data_records, sheetIO, gs_locals>>

\* lines 49-54: from_json_keyfile_name and authorize
Authenticate ==
    /\ pc = "gs_auth"
    /\ pc' \in {"gs_open", "gs_except"}
    /\ UNCHANGED <<env, tmp_file_name, tmpFiles, data_records, sheetIO, gs_locals>>

\* line 57: client.open(...).worksheet(...)
OpenSheet ==
    /\ pc = "gs_open"
    /\ pc' \in {"gs_read", "gs_except"}
    /\ sheetIO' = sheetIO + 1
    /\ UNCHANGED <<env, tmp_file_name, tmpFiles, data_records, gs_locals>>

\* lines 60-62: get_all_records, then return through finally
GetAllRecords ==
    /\ pc = "gs_read"
    /\ sheetIO' = sheetIO + 1
    /\ \/ \E list \in SeqsUpTo(Records, MaxRecords) :
            /\ data_records' = [isNone |-> FALSE, list |-> list]
            /\ pc' = "gs_finally"
       \/ pc' = "gs_except" /\ UNCHANGED data_records
    /\ UNCHANGED <<env, tmp_file_name, tmpFiles, gs_locals>>

\* lines 64-67: both except clauses only print; the function then returns None
Except ==
    /\ pc = "gs_except"
    /\ pc' = "gs_finally"
    /\ data_records' = NoData
    /\ UNCHANGED <<env, tmp_file_name, tmpFiles, sheetIO, gs_locals>>

\* lines 68-73
Finally ==
    /\ pc = "gs_finally"
    /\ IF tmp_file_name # NoName /\ tmp_file_name \in tmpFiles
       THEN tmpFiles' = tmpFiles \ {tmp_file_name}
       ELSE UNCHANGED tmpFiles
    /\ pc' = "hw_check"
    /\ UNCHANGED <<env, tmp_file_name, data_records, sheetIO, gs_locals>>

(* ---------------- app.py: handle_webhook ---------------- *)
hw_rest == <<env, tmp_file_name, tmpFiles, data_records, incoming_data,
             sheet_success, sheetIO, appendCalls>>

\* Mutant: only the endpoint is validated.
CheckConfig_EndpointOnly ==
    /\ pc = "hw_config"
    /\ IF ~Truthy(CLIENT_API_ENDPOINT)
       THEN /\ response' = ErrorResponse("Server configuration error.", 500)
            /\ pc' = "done"
       ELSE /\ pc' = "gs_creds"
            /\ UNCHANGED response
    /\ UNCHANGED <<hw_rest, idx, success_count, error_count, posts, outcomes>>

\* lines 139-144
CheckConfig ==
    /\ pc = "hw_config"
    /\ IF ~Truthy(CLIENT_API_ENDPOINT) \/ ~Truthy(CLIENT_API_KEY)
       THEN /\ response' = ErrorResponse("Server configuration error.", 500)
            /\ pc' = "done"
       ELSE /\ pc' = "gs_creds"
            /\ UNCHANGED response
    /\ UNCHANGED <<hw_rest, idx, success_count, error_count, posts, outcomes>>

\* Mutant: only a failed fetch (None) is an error, an empty sheet is not.
CheckData_NoneOnly ==
    /\ pc = "hw_check"
    /\ IF data_records.isNone
       THEN /\ response' = ErrorResponse("Failed to retrieve data from Google Sheets.", 500)
            /\ pc' = "done"
       ELSE /\ pc' = "hw_loop"
            /\ UNCHANGED response
    /\ idx' = 1
    /\ success_count' = 0
    /\ error_count' = 0
    /\ UNCHANGED <<hw_rest, posts, outcomes>>

\* lines 146-150: "not data_records" holds for None and for the empty list
CheckData ==
    /\ pc = "hw_check"
    /\ IF data_records.isNone \/ data_records.list = <<>>
       THEN /\ response' = ErrorResponse("Failed to retrieve data from Google Sheets.", 500)
            /\ pc' = "done"
       ELSE /\ pc' = "hw_loop"
            /\ UNCHANGED response
    /\ idx' = 1
    /\ success_count' = 0
    /\ error_count' = 0
    /\ UNCHANGED <<hw_rest, posts, outcomes>>

\* Mutant: a rejected record is skipped without being counted.
LoopSkip_NoCount ==
    /\ pc = "hw_loop"
    /\ idx <= Len(data_records.list)
    /\ build_whatsapp_payload(data_records.list[idx]).isNone
    /\ outcomes' = Append(outcomes, Outcome("rejected", 0))
    /\ idx' = idx + 1
    /\ UNCHANGED <<hw_rest, pc, success_count, error_count, response, posts>>

\* lines 153-158: the mapper rejected the record
LoopSkip ==
    /\ pc = "hw_loop"
    /\ idx <= Len(data_records.list)
    /\ build_whatsapp_payload(data_records.list[idx]).isNone
    /\ error_count' = error_count + 1
    /\ outcomes' = Append(outcomes, Outcome("rejected", 0))
    /\ idx' = idx + 1
    /\ UNCHANGED <<hw_rest, pc, success_count, response, posts>>

\* lines 160-178: the POST returned a response
LoopPost ==
    /\ pc = "hw_loop"
    /\ idx <= Len(data_records.list)
    /\ ~build_whatsapp_payload(data_records.list[idx]).isNone
    /\ posts' = Append(posts, idx)
    /\ \E status_code \in StatusCodes :
         /\ IF IsSuccessStatus(status_code)
            THEN success_count' = success_count + 1 /\ UNCHANGED error_count
            ELSE error_count' = error_count + 1 /\ UNCHANGED success_count
         /\ outcomes' = Append(outcomes, Outcome("status", status_code))
    /\ idx' = idx + 1
    /\ UNCHANGED <<hw_rest, pc, response>>

\* Mutant: a network error ends the loop (break instead of falling through).
LoopNetworkError_Break ==
    /\ pc = "hw_loop"
    /\ idx <= Len(data_records.list)
    /\ ~build_whatsapp_payload(data_records.list[idx]).isNone
    /\ posts' = Append(posts, idx)
    /\ error_count' = error_count + 1
    /\ outcomes' = Append(outcomes, Outcome("neterr", 0))
    /\ idx' = Len(data_records.list) + 1
    /\ UNCHANGED <<hw_rest, pc, success_count, response>>

\* Mutant: after a network error the same record is tried once more.
LoopNetworkError_Retry ==
    /\ pc = "hw_loop"
    /\ idx <= Len(data_records.list)
    /\ ~build_whatsapp_payload(data_records.list[idx]).isNone
    /\ posts' = Append(posts, idx) \o <<idx>>
    /\ error_count' = error_count + 1
    /\ outcomes' = Append(outcomes, Outcome("neterr", 0))
    /\ idx' = idx + 1
    /\ UNCHANGED <<hw_rest, pc, success_count, response>>

\* lines 171, 180-182: the POST raised a requests.exceptions.RequestException
LoopNetworkError ==
    /\ pc = "hw_loop"
    /\ idx <= Len(data_records.list)
    /\ ~build_whatsapp_payload(data_records.list[idx]).isNone
    /\ posts' = Append(posts, idx)
    /\ error_count' = error_count + 1
    /\ outcomes' = Append(outcomes, Outcome("neterr", 0))
    /\ idx' = idx + 1
    /\ UNCHANGED <<hw_rest, pc, success_count, response>>

\* line 171: the POST raised something that is no RequestException; the
\* except clause of line 180 does not match and the handler has no other
LoopOtherException ==
    /\ pc = "hw_loop"
    /\ idx <= Len(data_records.list)
    /\ ~build_whatsapp_payload(data_records.list[idx]).isNone
    /\ posts' = Append(posts, idx)
    /\ outcomes' = Append(outcomes, Outcome("exception", 0))
    /\ response' = Unhandled
    /\ pc' = "done"
    /\ UNCHANGED <<hw_rest, idx, success_count, error_count>>

\* lines 185-191
Respond ==
    /\ pc = "hw_loop"
    /\ idx > Len(data_records.list)
    /\ response' = [NoResponse EXCEPT !.kind = "aggregate", !.code = 200,
                       !.message = "Sheet data fetched and processing initiated.",
                       !.records_processed = Len(data_records.list),
                       !.records_sent_successfully = success_count,
                       !.records_failed = error_count]
    /\ pc' = "done"
    /\ UNCHANGED <<hw_rest, idx, success_count, error_count, posts, outcomes>>

(* ---------------- app_01.py: write_sheet_data ---------------- *)
ws_locals == <<idx, success_count, error_count, incoming_data, data_records,
               response, posts, outcomes>>

\* lines 27-33
W_GetCreds ==
    /\ pc = "ws_creds"
    /\ IF ~Truthy(GOOGLE_CREDENTIALS)
       THEN pc' = "sd_build" /\ sheet_success' = FALSE
       ELSE pc' = "ws_mktemp" /\ UNCHANGED sheet_success
    /\ tmp_file_name' = NoName
    /\ UNCHANGED <<env, tmpFiles, sheetIO, appendCalls, ws_locals>>

\* line 37
W_MkTemp ==
    /\ pc = "ws_mktemp"
    /\ \/ pc' = "ws_write" /\ tmpFiles' = tmpFiles \cup {TmpName}
       \/ pc' = "ws_except" /\ UNCHANGED tmpFiles
    /\ UNCHANGED <<env, tmp_file_name, sheet_success, sheetIO, appendCalls, ws_locals>>

\* lines 38-39
W_WriteTemp ==
    /\ pc = "ws_write"
    /\ \/ pc' = "ws_auth" /\ tmp_file_name' = TmpName
       \/ pc' = "ws_except" /\ UNCHANGED tmp_file_name
    /\ UNCHANGED <<env, tmpFiles, sheet_success, sheetIO, appendCalls, ws_locals>>

\* lines 41-46
W_Authenticate ==
    /\ pc = "ws_auth"
    /\ pc' \in {"ws_open", "ws_except"}
    /\ UNCHANGED <<env, tmp_file_name, tmpFiles, sheet_success, sheetIO, appendCalls, ws_locals>>

\* lines 49-50: open_by_key and worksheet
W_OpenSheet ==
    /\ pc = "ws_open"
    /\ pc' \in {"ws_header", "ws_except"}
    /\ sheetIO' = sheetIO + 1
    /\ UNCHANGED <<env, tmp_file_name, tmpFiles, sheet_success, appendCalls, ws_locals>>

\* lines 53-57: read the header row, then new_record.get(h, '') for each
\* header; .get raises AttributeError when the body was no JSON object
W_BuildRow ==
    /\ pc = "ws_header"
    /\ sheetIO' = sheetIO + 1
    /\ \/ pc' = "ws_except"
       \/ \E headerEmpty \in BOOLEAN :
            pc' = (IF ~headerEmpty /\ incoming_data.t # "dict"
                   THEN "ws_except" ELSE "ws_append")
    /\ UNCHANGED <<env, tmp_file_name, tmpFiles, sheet_success, appendCalls, ws_locals>>

\* lines 60-63: append_row is issued; it returns or raises
W_AppendRow ==
    /\ pc = "ws_append"
    /\ sheetIO' = sheetIO + 1
    /\ appendCalls' = appendCalls + 1
    /\ \/ pc' = "ws_finally" /\ sheet_success' = TRUE
       \/ pc' = "ws_except" /\ UNCHANGED sheet_success
    /\ UNCHANGED <<env, tmp_file_name, tmpFiles, ws_locals>>

\* lines 65-67
W_Except ==
    /\ pc = "ws_except"
    /\ sheet_success' = FALSE
    /\ pc' = "ws_finally"
    /\ UNCHANGED <<env, tmp_file_name, tmpFiles, sheetIO, appendCalls, ws_locals>>

\* lines 68-70
W_Finally ==
    /\ pc = "ws_finally"
    /\ IF tmp_file_name # NoName /\ tmp_file_name \in tmpFiles
       THEN tmpFiles' = tmpFiles \ {tmp_file_name}
       ELSE UNCHANGED tmpFiles
    /\ pc' = "sd_build"
    /\ UNCHANGED <<env, tmp_file_name, sheet_success, sheetIO, appendCalls, ws_locals>>

(* ---------------- app_01.py: submit_data ---------------- *)
sd_rest == <<env, tmp_file_name, tmpFiles, data_records, idx, success_count,
             error_count, sheet_success, posts, outcomes, sheetIO, appendCalls>>

\* What request.get_json(silent=True) can give: None, a JSON object, or
\* another truthy JSON value such as the list [1].
IncomingValues ==
    {NoIncoming} \cup {[t |-> "dict", rec |-> r] : r \in Records}
                 \cup {[t |-> "list", rec |-> <<>>]}

\* "not incoming_data": None and the empty object {} are falsy
Falsy(d) == d.t = "none" \/ (d.t = "dict" /\ DOMAIN d.rec = {})

\* lines 137-148
ReceiveData ==
    /\ pc = "sd_json"
    /\ \E d \in IncomingValues :
         /\ incoming_data' = d
         /\ IF Falsy(d)
            THEN /\ response' = ErrorResponse("Invalid JSON received or missing body.", 400)
                 /\ pc' = "done"
            ELSE IF ~Truthy(SHEET_ID)
            THEN /\ response' = ErrorResponse("Server configuration missing SHEET_ID.", 500)
                 /\ pc' = "done"
            ELSE /\ pc' = "ws_creds"
                 /\ UNCHANGED response
    /\ UNCHANGED sd_rest

\* line 151 when the body is no JSON object: record.get raises
\* AttributeError, which nothing in submit_data catches
BuildRaises ==
    /\ pc = "sd_build"
    /\ incoming_data.t # "dict"
    /\ response' = Unhandled
    /\ pc' = "done"
    /\ UNCHANGED <<sd_rest, incoming_data>>

\* lines 151-162
BuildAndReturn ==
    /\ pc = "sd_build"
    /\ incoming_data.t = "dict"
    /\ LET whatsapp_payload == build_whatsapp_payload(incoming_data.rec)
       IN  response' =
             IF whatsapp_payload.isNone
             THEN ErrorResponse("Failed to construct WhatsApp payload (missing mobile/app ID).", 400)
             ELSE [NoResponse EXCEPT !.kind = "payload", !.code = 200,
                      !.sheet_write_status =
                          IF sheet_success THEN "success" ELSE "failure"]
    /\ pc' = "done"
    /\ UNCHANGED <<sd_rest, incoming_data>>

Next ==
    \/ CheckConfig
    \/ GetCreds
    \/ MkTemp
    \/ WriteTemp
    \/ Authenticate
    \/ OpenSheet
    \/ GetAllRecords
    \/ Except
    \/ Finally
    \/ CheckData
    \/ LoopSkip
    \/ LoopPost
    \/ LoopNetworkError
    \/ LoopOtherException
    \/ Respond
    \/ ReceiveData
    \/ W_GetCreds
    \/ W_MkTemp
    \/ W_WriteTemp
    \/ W_Authenticate
    \/ W_OpenSheet
    \/ W_BuildRow
    \/ W_AppendRow
    \/ W_Except
    \/ W_Finally
    \/ BuildRaises
    \/ BuildAndReturn

Spec == Init /\ [][Next]_vars

(* ======================= properties ======================= *)
ConfigMessage == "Server configuration error."
RetrieveMessage == "Failed to retrieve data from Google Sheets."
MappingMessage == "Failed to construct WhatsApp payload (missing mobile/app ID)."

ConfigMissing == ~Truthy(CLIENT_API_ENDPOINT) \/ ~Truthy(CLIENT_API_KEY)
Evaluated == 1..Len(outcomes)
SuccessStatuses == {200, 201, 202}
SuccessIdx == {i \in Evaluated : outcomes[i].kind = "status"
                                  /\ outcomes[i].status \in SuccessStatuses}
FailedIdx == {i \in Evaluated :
                \/ outcomes[i].kind \in {"rejected", "neterr"}
                \/ outcomes[i].kind = "status" /\ outcomes[i].status \notin SuccessStatuses}
\* the field is present and its text is not the empty string
HasValue(record, key) == key \in DOMAIN record /\ str(record[key]) # <<>>
\* the field is present and its text holds a character that is no space
HasNonSpace(record, key) ==
    /\ key \in DOMAIN record
    /\ \E i \in 1..Len(str(record[key])) : str(record[key])[i] # " "
InFetch == pc \in {"gs_creds", "gs_mktemp", "gs_write", "gs_auth", "gs_open",
                   "gs_read", "gs_except", "gs_finally"}
InWrite == pc \in {"ws_creds", "ws_mktemp", "ws_write", "ws_auth", "ws_open",
                   "ws_header", "ws_append", "ws_except", "ws_finally"}

\* C1: whenever /sheet-update returns the aggregate response,
\* records_sent_successfully + records_failed = records_processed, and
\* records_processed is the number of fetched records.
C1_CountsAddUp ==
    response.kind = "aggregate" =>
        /\ response.records_processed = Len(data_records.list)
        /\ response.records_sent_successfully + response.records_failed
               = response.records_processed

C1_Witness ==
    /\ response.kind = "aggregate"
    /\ response.records_sent_successfully >= 1
    /\ \E i \in Evaluated : outcomes[i].kind = "rejected"

\* C2: in /sheet-update a rejected record, a non-2xx status or a network
\* error never ends the loop: records are evaluated one after the other, and
\* a run whose records all ended in one of these ways (or in a success) has
\* evaluated every fetched record and answered HTTP 200.
C2_FailureNeverAborts ==
    /\ pc = "hw_loop" => Len(outcomes) = idx - 1
    /\ ( /\ route = "bulk"
         /\ pc = "done"
         /\ outcomes # <<>>
         /\ \A i \in Evaluated : outcomes[i].kind \in {"rejected", "status", "neterr"} )
       => /\ response.kind = "aggregate"
          /\ response.code = 200
          /\ Len(outcomes) = Len(data_records.list)

C2_Witness ==
    /\ pc = "done"
    /\ response.code = 200
    /\ Len(outcomes) >= 2
    /\ outcomes[1].kind = "neterr"
    /\ FailedIdx = Evaluated

\* C3 as stated: a payload is produced exactly for the records whose
\* 'Mobile No' and 'Application ID' are both present and non-empty.
C3_Original ==
    /\ \A i \in Evaluated :
         outcomes[i].kind # "rejected"
           <=> ( HasValue(data_records.list[i], "Mobile No")
                 /\ HasValue(data_records.list[i], "Application ID") )
    /\ (route = "submit" /\ response.kind \in {"payload", "error"}
          /\ response.message \in {"", MappingMessage})
       => ( response.kind = "payload"
              <=> ( HasValue(incoming_data.rec, "Mobile No")
                    /\ HasValue(incoming_data.rec, "Application ID") ) )

\* C3 as amended: a payload is produced exactly for the records whose
\* 'Mobile No' holds a character other than a space and whose
\* 'Application ID' is present and non-empty; a phone number made of spaces
\* only is rejected like an empty one.
C3_PayloadIffRequiredFields ==
    /\ \A i \in Evaluated :
         outcomes[i].kind # "rejected"
           <=> ( HasNonSpace(data_records.list[i], "Mobile No")
                 /\ HasValue(data_records.list[i], "Application ID") )
    /\ (route = "submit" /\ response.kind \in {"payload", "error"}
          /\ response.message \in {"", MappingMessage})
       => ( response.kind = "payload"
              <=> ( HasNonSpace(incoming_data.rec, "Mobile No")
                    /\ HasValue(incoming_data.rec, "Application ID") ) )

C3_Witness ==
    /\ Len(outcomes) = 2
    /\ outcomes[1].kind = "status"
    /\ Get(data_records.list[1], "Mobile No") = StrCell(<<" ", "9">>)
    /\ outcomes[2].kind = "rejected"
    /\ Get(data_records.list[2], "Mobile No") = StrCell(<<" ">>)
    /\ HasValue(data_records.list[2], "Application ID")

\* C4: when CLIENT_API_ENDPOINT or CLIENT_API_KEY is unset, /sheet-update
\* makes no spreadsheet call and no POST, creates no credential file, and
\* answers HTTP 500 with the configuration-error message.
C4_FailsClosed ==
    (route = "bulk" /\ ConfigMissing) =>
        /\ sheetIO = 0
        /\ posts = <<>>
        /\ tmpFiles = {}
        /\ pc \in {"hw_config", "done"}
        /\ pc = "done" => response = ErrorResponse(ConfigMessage, 500)

C4_Witness ==
    /\ route = "bulk"
    /\ CLIENT_API_ENDPOINT = "value"
    /\ CLIENT_API_KEY = Unset
    /\ pc = "done"
    /\ response.code = 500

\* C5: once get_sheet_data or write_sheet_data has returned, no credential
\* temporary file exists.
C5_NoTempFileLeft ==
    (~InFetch /\ ~InWrite) => tmpFiles = {}

\* C6: no exception leaves a request handler; every request is answered by
\* the handler itself.
C6_NoUnhandledException ==
    response.kind # "unhandled"

\* C7: in /sheet-update the success counter counts exactly the records whose
\* POST returned 200, 201 or 202 and the failure counter exactly the others
\* (other status, network error, rejected record); at the aggregate response
\* every fetched record is in exactly one of the two.
C7_ClassificationTotalBinary ==
    /\ (route = "bulk" /\ pc = "hw_loop") =>
          /\ success_count = Cardinality(SuccessIdx)
          /\ error_count = Cardinality(FailedIdx)
    /\ response.kind = "aggregate" =>
          /\ response.records_sent_successfully = Cardinality(SuccessIdx)
          /\ response.records_failed = Cardinality(FailedIdx)
          /\ SuccessIdx \cup FailedIdx = 1..Len(data_records.list)
          /\ SuccessIdx \cap FailedIdx = {}

C7_Witness ==
    /\ response.kind = "aggregate"
    /\ Len(outcomes) = 2
    /\ outcomes[1] = Outcome("status", 204)
    /\ outcomes[2] = Outcome("status", 202)
    /\ response.records_sent_successfully = 1

\* C8: when /submit-data answers 400 because the mapper rejected the record,
\* no spreadsheet call, in particular no append_row, was issued for it.
C8_RejectedBeforeAppend ==
    (route = "submit" /\ response = ErrorResponse(MappingMessage, 400))
        => (appendCalls = 0 /\ sheetIO = 0)

\* C9: in /sheet-update every evaluated record was POSTed exactly once if
\* the mapper produced a payload for it and never if it did not, and the
\* POSTs were issued in the order of the fetched records.
C9_OnePostPerRecordInOrder ==
    /\ \A i \in Evaluated :
         Cardinality({j \in 1..Len(posts) : posts[j] = i})
           = (IF build_whatsapp_payload(data_records.list[i]).isNone THEN 0 ELSE 1)
    /\ \A j \in 1..Len(posts) : posts[j] \in Evaluated
    /\ \A j, k \in 1..Len(posts) : j < k => posts[j] < posts[k]
    /\ route = "submit" => posts = <<>>

C9_Witness ==
    /\ posts = <<1, 2>>
    /\ outcomes[1].kind = "neterr"
    /\ outcomes[2] = Outcome("status", 500)
    /\ pc = "done"

\* C10: in /sheet-update with the configuration present, a fetch that
\* failed (None) and a fetch of zero records both end in HTTP 500 with the
\* "failed to retrieve" message, without any POST and without counts.
C10_FetchFailureIsError ==
    ( /\ route = "bulk"
      /\ ~ConfigMissing
      /\ pc \in {"hw_loop", "done"}
      /\ (data_records.isNone \/ data_records.list = <<>>) )
    => /\ pc = "done"
       /\ response = ErrorResponse(RetrieveMessage, 500)
       /\ posts = <<>>
       /\ outcomes = <<>>

C10_Witness ==
    /\ route = "bulk"
    /\ pc = "done"
    /\ ~data_records.isNone
    /\ data_records.list = <<>>
    /\ response.code = 500
    /\ sheetIO = 2
====
